---- MODULE Spec2Model ----
(***************************************************************************)
(* A model of the MC-Boost photon-propagation engine: the Photon walker    *)
(* (hop / drop / spin / roulette with medium-boundary handling), its       *)
(* hybrid Tausworthe random number generator, and the driver loop that     *)
(* launches and joins the walker threads for every acoustic time index.    *)
(*                                                                         *)
(* Seven specifications share the module:                                   *)
(*   SpecRNG    the generator with its 32-bit words, and the order in      *)
(*              which injectPhoton draws from it and seeds it, for two     *)
(*              executions of the program that receive the same seeds;     *)
(*   Spec       one walker propagating photons on an integer grid, the     *)
(*              random draws being choices from small sets;                *)
(*   SpecLayered  Spec in a Medium to which two layers were added;         *)
(*   SpecLive   Spec with the fairness of the walker's loop and of the     *)
(*              roulette draw;                                             *)
(*   SpecDriver the loop of runAcoustoOptics over the time indices, with   *)
(*              the walker threads it launches and joins;                  *)
(*   SpecMedium a Medium being given layers and detectors and then looked  *)
(*              up by the walkers;                                         *)
(*   SpecPlanar the threads that add to the planar array of a Medium       *)
(*              through absorbEnergy.                                      *)
(***************************************************************************)
EXTENDS Integers, Naturals, Sequences, FiniteSets, TLC

(***************************************************************************)
(* 32-bit words.  TLC's integers are 32-bit signed, so an unsigned 32-bit  *)
(* word is kept as a pair <<hi, lo>> of 16-bit halves and all operations   *)
(* are computed modulo 2^16 on the halves.                                 *)
(***************************************************************************)
Half == 65536

RECURSIVE Pow2(_)
Pow2(n) == IF n = 0 THEN 1 ELSE 2 * Pow2(n - 1)

RECURSIVE XorN(_, _, _)
XorN(a, b, n) ==
    IF n = 0 THEN 0
    ELSE (((a % 2) + (b % 2)) % 2) + (2 * XorN(a \div 2, b \div 2, n - 1))

RECURSIVE AndN(_, _, _)
AndN(a, b, n) ==
    IF n = 0 THEN 0
    ELSE ((a % 2) * (b % 2)) + (2 * AndN(a \div 2, b \div 2, n - 1))

\* z1 ^ z2 on unsigned int
Xor32(a, b) == <<XorN(a[1], b[1], 16), XorN(a[2], b[2], 16)>>

\* z & M on unsigned int
And32(a, b) == <<AndN(a[1], b[1], 16), AndN(a[2], b[2], 16)>>

\* z << s on unsigned int (bits shifted past bit 31 are lost), 0 < s < 32
Shl32(a, s) ==
    IF s >= 16
    THEN <<(a[2] * Pow2(s - 16)) % Half, 0>>
    ELSE <<(((a[1] * Pow2(s)) % Half) + (a[2] \div Pow2(16 - s))) % Half,
           (a[2] * Pow2(s)) % Half>>

\* z >> s on unsigned int, 0 < s < 32
Shr32(a, s) ==
    IF s >= 16
    THEN <<0, a[1] \div Pow2(s - 16)>>
    ELSE <<a[1] \div Pow2(s),
           (a[2] \div Pow2(s)) + ((a[1] % Pow2(s)) * Pow2(16 - s))>>

\* the multiplier and the increment of LCGStep, and the masks of TausStep,
\* as halves: 1664525 = 25 * 2^16 + 26125, 1013904223 = 15470 * 2^16 + 62303
LCG_A == <<25, 26125>>
LCG_C == <<15470, 62303>>
TausM1 == <<65535, 65534>>
TausM2 == <<65535, 65528>>
TausM3 == <<65535, 65520>>

\* (A * z + C) modulo 2^32
MulAdd32(A, w, C) ==
    LET p    == A[2] * w[2]
        mid  == ((A[1] * w[2]) % Half) + ((A[2] * w[1]) % Half)
        lo0  == p % Half
        hi0  == ((p \div Half) + mid) % Half
        lo1  == lo0 + C[2]
        hi1  == (hi0 + C[1] + (lo1 \div Half)) % Half
    IN  <<hi1, lo1 % Half>>

\* unsigned int TausStep(unsigned int &z, int s1, int s2, int s3, unsigned long M):
\* the new value of z, which is also the value returned
TausStep(w, s1, s2, s3, M) ==
    LET b == Shr32(Xor32(Shl32(w, s1), w), s2)
    IN  Xor32(Shl32(And32(w, M), s3), b)

\* unsigned int LCGStep(unsigned int &z, unsigned int A, unsigned long C)
LCGStep(w, A, C) == MulAdd32(A, w, C)

\* the state of the generator after one HybridTaus call
HybridTausState(st) ==
    [z1 |-> TausStep(st.z1, 13, 19, 12, TausM1),
     z2 |-> TausStep(st.z2, 2, 25, 4, TausM2),
     z3 |-> TausStep(st.z3, 3, 11, 17, TausM3),
     z4 |-> LCGStep(st.z4, LCG_A, LCG_C)]

\* the 32-bit word that HybridTaus multiplies by 2.3283064365387e-10: the
\* XOR of the four step results.  The double returned is 0.0 exactly when
\* the word is 0, and is below 1 for every 32-bit word.
HybridTausWord(st) ==
    LET n == HybridTausState(st)
    IN  Xor32(Xor32(Xor32(n.z1, n.z2), n.z3), n.z4)

Zero32 == <<0, 0>>

(***************************************************************************)
(* Bounds of the model.                                                    *)
(***************************************************************************)
\* number of getRandNum calls of propagatePhoton followed per time index
MaxDraws == 3
\* number of acoustic time indices followed (KWAVESIM_TIME_STEPS in the code)
MaxT == 2

\* edge of the cubic medium in grid units (Medium::x_bound, y_bound, z_bound)
GridSize == 3
\* largest step length, in grid units, that setStepSize draws
MaxStep == 2
\* iterations handed to injectPhoton (MAX_PHOTONS / NUM_THREADS in the code)
MaxIterations == 2
\* hops of one cycle after which the roulette draw no longer lets the photon
\* survive (keeps the length of a cycle finite)
MaxNumSteps == 3
\* walker threads launched per time index (NUM_THREADS in the code)
NumThreads == 2
\* seconds of wall-clock time that pass during a run (the values of time(0))
MaxClock == 2
\* layers and detectors added to a Medium, bins of the planar array (MAX_BINS
\* of the source, scaled down), calls of absorbEnergy by one thread
MaxLayers == 2
MaxDetectors == 2
MAX_BINS == 3
MaxAbsorbs == 1

(***************************************************************************)
(* The medium of runAcoustoOptics, on an integer grid: positions and step  *)
(* lengths are integers and a direction is a vector of {-1, 0, 1}^3 (the   *)
(* signs of the direction cosines), so that hop lands on grid points.  The *)
(* optical coefficients are scaled so that a cycle lasts a few steps.      *)
(***************************************************************************)
x_bound == GridSize
y_bound == GridSize
z_bound == GridSize

\* Layer(mu_a, mu_s, refractive_index, anisotropy, start_depth, end_depth);
\* the refractive index is given in hundredths
tissueLayer0 ==
    [mu_a |-> 99, mu_s |-> 1, n100 |-> 133, depth_start |-> 0, depth_end |-> z_bound]

VARIABLES
    \* ---- a Medium and its clients (SpecMedium) ----
    mphase,          \* "build": layers and detectors are being added;
                     \* "run": the walkers have been started
    m_layers,        \* the depth ranges of the layers a client has added, in
                     \* the order addLayer received them; <<>>: the Medium is
                     \* the one runAcoustoOptics builds
    m_detectors,     \* p_detectors: the radius of each detector added
    call             \* the last lookup made on the Medium and what it returned

mediumVars == <<mphase, m_layers, m_detectors, call>>

\* Medium::p_layers after the addLayer calls: the one layer of
\* runAcoustoOptics, or the layers a client has added, all of that tissue
p_layers ==
    IF m_layers = <<>> THEN <<tissueLayer0>>
    ELSE [i \in 1..Len(m_layers) |->
            [tissueLayer0 EXCEPT !.depth_start = m_layers[i].depth_start,
                                 !.depth_end = m_layers[i].depth_end]]

\* an absorber of the layer, as the commented-out lines of runAcoustoOptics
\* add one: a sphere that holds the one grid point at its centre, with its
\* own coefficients (the same total attenuation)
absorber0 == [centre |-> <<1, 1, 2>>, mu_a |-> 90, mu_s |-> 10]

\* the injection point handed to injectPhoton
injectionCoords == <<1, 1, 1>>

\* the circular detector on the plane z = z_bound: centre and radius
detectorCentre == <<1, 1, z_bound>>
detectorRadius == 1

\* weights are kept in units of 10^-6 (the initial weight 1.0 is WUnit)
WUnit == 1000000

\* THRESHOLD 0.01 and CHANCE 0.1, in hundredths
THRESHOLD_PCT == 1
CHANCE_PCT == 10

\* values of the roulette draw that are told apart, in hundredths
RandPct == {5, 10, 50}

ALIVE == TRUE
DEAD == FALSE

\* the results of a floating-point division by zero: x/0 (x # 0) is an
\* infinity, 0/0 is a NaN
fINF == 1000000
fNAN == -1000000

\* a < b on doubles: false when either is a NaN
fLess(a, b) == a # fNAN /\ b # fNAN /\ a < b

\* a + b on doubles
fAdd(a, b) ==
    IF a = fNAN \/ b = fNAN THEN fNAN
    ELSE IF a = fINF \/ b = fINF THEN fINF
    ELSE a + b

\* a / d on doubles, for a direction cosine d in {-1, 0, 1}
fDiv(a, d) ==
    IF d = 0 THEN (IF a = 0 THEN fNAN ELSE fINF)
    ELSE IF d > 0 THEN a ELSE -a

\* abs(x) on doubles
fAbs(a) == IF a = fNAN \/ a = fINF THEN a ELSE IF a < 0 THEN -a ELSE a

\* directions spin can produce: along an axis (normal incidence on a face),
\* in a coordinate plane and along a space diagonal (incidence above the
\* critical angle); and the directions initTrajectory produces (direction.z
\* is set to 1.0)
Dirs ==
    {<<0, 0, 1>>, <<0, 0, -1>>, <<1, 0, 0>>, <<0, -1, 0>>, <<1, 1, 0>>,
     <<-1, 0, 1>>, <<1, 1, 1>>, <<-1, -1, -1>>}
InitDirs == {<<0, 0, 1>>, <<-1, 1, 1>>}

\* Layer * Medium::getLayerFromDepth(double z): the index of the first layer
\* that contains z; 0 stands for the dereferenced end() iterator
getLayerFromDepth(zz) ==
    LET found == {i \in 1..Len(p_layers) :
                    p_layers[i].depth_start <= zz /\ p_layers[i].depth_end >= zz}
    IN  IF found = {} THEN 0
        ELSE CHOOSE i \in found : \A j \in found : i <= j

\* Layer::getAbsorber(location): the absorber that contains the point, if any
getAbsorber(loc) == loc = absorber0.centre

\* Layer::getAbsorpCoeff(location), getScatterCoeff(location) and
\* getTotalAttenuationCoeff(location): the absorber's coefficients inside it
getAbsorpCoeff(layer, loc) ==
    IF getAbsorber(loc) THEN absorber0.mu_a ELSE p_layers[layer].mu_a
getScatterCoeff(layer, loc) ==
    IF getAbsorber(loc) THEN absorber0.mu_s ELSE p_layers[layer].mu_s
getTotalAttenuationCoeff(layer, loc) ==
    getAbsorpCoeff(layer, loc) + getScatterCoeff(layer, loc)

\* Detector::photonHitDetector(location): the point lies on the detector
\* plane, within the radius of the centre
photonHitDetector(loc) ==
    /\ loc[3] = detectorCentre[3]
    /\ ((loc[1] - detectorCentre[1]) * (loc[1] - detectorCentre[1]))
       + ((loc[2] - detectorCentre[2]) * (loc[2] - detectorCentre[2]))
          <= detectorRadius * detectorRadius

\* hitDetectorNumTimes++ on the bool counter of photonHitDetectorPlane: the
\* increment of a bool gives true, that is 1
boolIncrement(b) == 1

\* int Medium::photonHitDetectorPlane(p0), given what photonHitDetector of
\* each detector of p_detectors reports, in order: the counter is declared
\* bool, is incremented for every detector that reports a hit, and is
\* returned as an int
RECURSIVE hitDetectorNumTimes(_, _)
hitDetectorNumTimes(reports, n) ==
    IF n = 0 THEN 0
    ELSE LET before == hitDetectorNumTimes(reports, n - 1)
         IN  IF reports[n] THEN boolIncrement(before) ELSE before

photonHitDetectorPlane(reports) == hitDetectorNumTimes(reports, Len(reports))

\* bool Photon::checkDetector(): photonHitDetectorPlane(currLocation) > 0;
\* the medium of runAcoustoOptics has the one detector
checkDetectorAlways(loc) == TRUE
checkDetector(loc) == photonHitDetectorPlane(<<photonHitDetector(loc)>>) > 0

\* Detector::photonHitDetector(location) of a detector of the given radius
\* centred on the exit plane
photonHitDetectorOf(radius, loc) ==
    /\ loc[3] = detectorCentre[3]
    /\ ((loc[1] - detectorCentre[1]) * (loc[1] - detectorCentre[1]))
       + ((loc[2] - detectorCentre[2]) * (loc[2] - detectorCentre[2]))
          <= radius * radius

\* what the lookups of a Medium return: the index of a layer in p_layers,
\* NULL, or, where the code dereferences the end() iterator of p_layers,
\* whatever word lies behind the vector's last element: NULL, the address
\* of some layer or of no layer at all (Invalid).  Aborted: an assert
\* failed.
NULL == 0
Invalid == 0 - 1
Aborted == 0 - 2
PastTheEnd(layers) == {NULL, Invalid} \cup (1..Len(layers))

\* the first layer of the vector with depth_start <= z <= depth_end, as
\* the loops of the lookups find it; 0 when the loop runs to end()
firstLayerContaining(layers, zz) ==
    LET found == {i \in 1..Len(layers) :
                    layers[i].depth_start <= zz /\ layers[i].depth_end >= zz}
    IN  IF found = {} THEN 0
        ELSE CHOOSE i \in found : \A j \in found : i <= j

\* Layer * Medium::getLayerFromDepth(double z) on any vector of layers:
\* the set of values it can return
getLayerFromDepthOf(layers, zbound, zz) ==
    IF ~(zz >= 0 /\ zz <= zbound) THEN {Aborted}
    ELSE IF firstLayerContaining(layers, zz) = 0 THEN PastTheEnd(layers)
    ELSE {firstLayerContaining(layers, zz)}

\* Layer * Medium::getLayerBelowCurrent(double z): the set of values it
\* can return; *(++it) is the element after the layer found
getLayerBelowCurrent(layers, zbound, zz) ==
    IF ~(zz >= 0 /\ zz <= zbound) THEN {Aborted}
    ELSE IF Len(layers) = 1 THEN {NULL}
    ELSE IF zz = zbound THEN {NULL}
    ELSE IF firstLayerContaining(layers, zz) = 0 THEN {NULL}
    ELSE IF firstLayerContaining(layers, zz) + 1 <= Len(layers)
         THEN {firstLayerContaining(layers, zz) + 1}
    ELSE PastTheEnd(layers)

\* Layer * Medium::getLayerAboveCurrent(Layer *currentLayer), the layer
\* given by its index in the vector (NULL: no layer): the set of values it
\* can return
getLayerAboveCurrent(layers, k) ==
    IF k = NULL THEN {Aborted}
    ELSE IF Len(layers) = 1 THEN {NULL}
    ELSE IF k = 1 THEN {NULL}
    ELSE {k - 1}

\* the distance to the boundary of one axis, as hitMediumBoundary computes
\* it once the projected coordinate is at or past a bound
distanceToBoundary(c, d, bound) ==
    IF d > 0 THEN fDiv(bound - c, d) ELSE fAbs(fDiv(c, d))

\* the branches of hitMediumBoundary that choose among several flagged
\* axes: distance_to_boundary and the three flags they assign, k being the
\* axis chosen (1: x, 2: y, 3: z)
chosenAxisOthersKept(d, k) == [d |-> d, hx |-> TRUE, hy |-> TRUE, hz |-> TRUE]
chosenAxis(d, k) == [d |-> d, hx |-> k = 1, hy |-> k = 2, hz |-> k = 3]

\* step_remainder = (step - distance_to_boundary)*mu_t, of a clipped step
stepRemainderUnscaled(st, d, mu_t) == st - d
stepRemainder(st, d, mu_t) == (st - d) * mu_t

\* bool Photon::hitMediumBoundary(void): the flags, step and step_remainder
\* it leaves, and the value it returns.  The flags are not cleared on entry.
hitMediumBoundary(loc, dir, st, rem, hx0, hy0, hz0, mu_t) ==
    LET x_step == (st * dir[1]) + loc[1]
        y_step == (st * dir[2]) + loc[2]
        z_step == (st * dir[3]) + loc[3]
        inX == x_step >= x_bound \/ x_step <= 0
        inY == y_step >= y_bound \/ y_step <= 0
        inZ == z_step >= z_bound \/ z_step <= 0
        hx1 == hx0 \/ inX
        hy1 == hy0 \/ inY
        hz1 == hz0 \/ inZ
        dX == IF inX THEN distanceToBoundary(loc[1], dir[1], x_bound) ELSE 0
        dY == IF inY THEN distanceToBoundary(loc[2], dir[2], y_bound) ELSE 0
        dZ == IF inZ THEN distanceToBoundary(loc[3], dir[3], z_bound) ELSE 0
        sel ==
            IF hx1 /\ hy1
            THEN IF fLess(dX, dY) THEN chosenAxis(dX, 1) ELSE chosenAxis(dY, 2)
            ELSE IF hx1 /\ hz1
            THEN IF fLess(dX, dZ) THEN chosenAxis(dX, 1) ELSE chosenAxis(dZ, 3)
            ELSE IF hy1 /\ hz1
            THEN IF fLess(dY, dZ) THEN chosenAxis(dY, 2) ELSE chosenAxis(dZ, 3)
            ELSE IF hx1 /\ hy1 /\ hz1
            THEN LET m == IF fLess(dX, dY) THEN dX ELSE dY
                 IN  chosenAxis(IF fLess(m, dZ) THEN m ELSE dZ, 1)
            ELSE [d |-> fAdd(fAdd(dX, dY), dZ), hx |-> hx1, hy |-> hy1, hz |-> hz1]
    IN  IF ~hx1 /\ ~hy1 /\ ~hz1
        THEN [ret |-> FALSE, step |-> st, step_remainder |-> rem,
              hx |-> hx1, hy |-> hy1, hz |-> hz1]
        ELSE IF fLess(sel.d, st)
        THEN [ret |-> TRUE, step |-> sel.d,
              step_remainder |-> stepRemainder(st, sel.d, mu_t),
              hx |-> sel.hx, hy |-> sel.hy, hz |-> sel.hz]
        ELSE [ret |-> FALSE, step |-> st, step_remainder |-> rem,
              hx |-> sel.hx, hy |-> sel.hy, hz |-> sel.hz]

VARIABLES
    \* ---- generator, per execution of the program (SpecRNG) ----
    z,          \* Photon::z1..z4 of the walker of each execution
    zsrc,       \* where the words now in z come from: "uninit" (never
                \* assigned), "seeded" (initRNG of this injection) or
                \* "stale" (left by the previous injection)
    rpc,        \* position of the walker thread in injectPhoton
    rdt,        \* time index dt of the driver loop
    ndraws,     \* getRandNum calls made by propagatePhoton in this index
    draws,      \* the words drawn so far, in order, with the origin of the
                \* state each was drawn from
    seeds       \* s1..s4 handed to injectPhoton at each time index

rngVars == <<z, zsrc, rpc, rdt, ndraws, draws, seeds>>

VARIABLES
    \* ---- the walker (Spec): the fields of Photon ----
    status,             \* ALIVE or DEAD
    weight,             \* in units of 1 / WUnit
    tagged,
    location,           \* currLocation->location, <<x, y, z>>
    direction,          \* the direction cosines of currLocation
    unitDir,            \* FALSE while the direction is the one initTrajectory
                        \* set (z component 1.0, not normalised)
    step,
    step_remainder,
    rPos,               \* the field r, "Radial position": the one running
                        \* length the Photon holds besides step and step_remainder
    hit_x_bound, hit_y_bound, hit_z_bound,
    transmission_angle, \* 0, or 1 for an angle that is not 0
    currLayer,          \* index into p_layers, 0 before injectPhoton
    num_steps,          \* hops of this cycle, counted up to MaxNumSteps
    cnt,                \* the loop variable i of propagatePhoton
    pc,                 \* the statement of propagatePhoton that runs next
    \* ---- what the walker writes outside itself, per cycle ----
    deposited,          \* energy added to the absorber by updateAbsorbedWeight
    planar,             \* energy added to local_Cplanar / Cplanar
    exitData,           \* records written by Logger::writeExitData
    \* ---- history ----
    op,                 \* the operation that ran last
    opDraws,            \* getRandNum calls that operation made
    rnd,                \* the value of its roulette draw, in hundredths (0: none)
    postInit            \* the Photon state right after injectPhoton set it up

photonVars == <<status, weight, tagged, location, direction, unitDir, step,
                step_remainder, rPos, hit_x_bound, hit_y_bound, hit_z_bound,
                transmission_angle, currLayer, num_steps, cnt, pc,
                deposited, planar, exitData, op, opDraws, rnd, postInit>>

VARIABLES
    \* ---- the driver, runAcoustoOptics (SpecDriver) ----
    dpc,                \* the statement of the driver that runs next
    dt,                 \* the time index of the for loop
    di,                 \* the loop variable i of the launch and join loops
    clock,              \* wall-clock time in seconds, as time(0) returns it
    srandSeed,          \* the argument of the last srand call
    randCalls,          \* rand() calls made since that srand call
    threadSeeds,        \* s1..s4 handed to each thread: the srand seed and the
                        \* rand() calls (first, last) they are the results of
    threads,            \* threads[]: "notAThread", "running", "finished"
                        \* (injectPhoton has returned) or "joined"
    iterationsDone,     \* cycles the walker of each thread has completed
    exitFile,           \* time index of the exit file the Logger has open
    pressureFrame,      \* time index of the pressure map the Medium holds
    displacementFrame   \* time index of the displacement maps it holds

driverVars == <<dpc, dt, di, clock, srandSeed, randCalls, threadSeeds, threads,
                iterationsDone, exitFile, pressureFrame, displacementFrame>>

VARIABLES
    \* ---- the planar array of a Medium and its writers (SpecPlanar) ----
    Cplanar,         \* the array given to setPlanarArray; <<>> while NULL
    m_sensor_mutex,  \* the thread that holds the mutex, 0 when it is free
    apc,             \* per thread: where it is inside absorbEnergy
    ajob,            \* per thread: the arguments of its call of absorbEnergy
    ai,              \* per thread: the bin index it is working on
    areg,            \* per thread: the value it read from the bin
    ncalls,          \* per thread: calls of absorbEnergy it has made
    contributed      \* per bin: the sum of what the returned calls added to it

planarVars == <<Cplanar, m_sensor_mutex, apc, ajob, ai, areg, ncalls, contributed>>

vars == <<rngVars, photonVars, driverVars, mediumVars, planarVars>>

\* the Photon fields that reset() is to restore
PhotonState ==
    [status |-> status, weight |-> weight, tagged |-> tagged,
     location |-> location, direction |-> direction, step |-> step,
     step_remainder |-> step_remainder, hit_x_bound |-> hit_x_bound,
     hit_y_bound |-> hit_y_bound, hit_z_bound |-> hit_z_bound,
     transmission_angle |-> transmission_angle, currLayer |-> currLayer]

\* Photon::Photon(void): initCommon(); the vectors are zero, currLayer and
\* the generator words are not assigned
PhotonConstructed ==
    /\ status = ALIVE
    /\ weight = WUnit
    /\ tagged = FALSE
    /\ location = <<0, 0, 0>>
    /\ direction = <<0, 0, 0>>
    /\ unitDir = FALSE
    /\ step = 0
    /\ step_remainder = 0
    /\ rPos = 0
    /\ hit_x_bound = FALSE /\ hit_y_bound = FALSE /\ hit_z_bound = FALSE
    /\ transmission_angle = 0
    /\ currLayer = 0
    /\ num_steps = 0
    /\ cnt = 0
    /\ pc = "injectPhoton"
    /\ deposited = 0
    /\ planar = 0
    /\ exitData = <<>>
    /\ op = "Photon"
    /\ opDraws = 0
    /\ rnd = 0
    /\ postInit = [status |-> ALIVE]

\* runAcoustoOptics before its for loop: the Medium holds no frame, threads[]
\* holds default-constructed boost::thread objects
DriverConstructed(at) ==
    /\ dpc = at
    /\ dt = 1
    /\ di = 0
    /\ clock = 0
    /\ srandSeed = 0
    /\ randCalls = 0
    /\ threadSeeds = [t \in 1..NumThreads |-> <<0, 0, 0>>]
    /\ threads = [t \in 1..NumThreads |-> "notAThread"]
    /\ iterationsDone = [t \in 1..NumThreads |-> 0]
    /\ exitFile = 0
    /\ pressureFrame = 0
    /\ displacementFrame = 0

\* the driver is not followed in SpecRNG and Spec
DriverIdle == DriverConstructed("done")

\* no lookup has been made
NoCall == [fn |-> "none", arg |-> 0, ret |-> 0]

\* Medium::Medium(x, y, z) as far as the layers and detectors go: both
\* vectors are empty
MediumConstructed(ph) ==
    /\ mphase = ph
    /\ m_layers = <<>>
    /\ m_detectors = <<>>
    /\ call = NoCall

\* Medium::initCommon(): Cplanar = NULL; no thread is inside absorbEnergy
PlanarConstructed(at) ==
    /\ Cplanar = <<>>
    /\ m_sensor_mutex = 0
    /\ apc = [t \in 1..NumThreads |-> at]
    /\ ajob = [t \in 1..NumThreads |-> <<>>]
    /\ ai = [t \in 1..NumThreads |-> 0]
    /\ areg = [t \in 1..NumThreads |-> 0]
    /\ ncalls = [t \in 1..NumThreads |-> 0]
    /\ contributed = <<>>

\* the Medium's vectors and planar array are followed only in SpecMedium
\* and SpecPlanar
MediumIdle == MediumConstructed("done") /\ PlanarConstructed("done")

(***************************************************************************)
(* SpecRNG: two executions of the program with NUM_THREADS = 1 that are    *)
(* given the same seeds.  photons[] is a local array of runAcoustoOptics   *)
(* whose constructor does not assign z1..z4, so the words hold whatever    *)
(* the memory held: any value, chosen independently in each execution.     *)
(***************************************************************************)
Runs == {1, 2}

W(n) == <<n \div Half, n % Half>>

\* values the unassigned words z1..z4 may hold
Uninitialized ==
    { [z1 |-> W(0), z2 |-> W(0), z3 |-> W(0), z4 |-> W(0)],
      [z1 |-> W(12345), z2 |-> W(7), z3 |-> W(4096), z4 |-> W(99)] }

\* seed words: rand() + 128, each in 128 .. RAND_MAX + 128
SeedTuples ==
    { [z1 |-> W(200), z2 |-> W(201), z3 |-> W(202), z4 |-> W(203)],
      [z1 |-> W(200), z2 |-> W(201), z3 |-> W(202), z4 |-> <<15546, 17591>>],
      [z1 |-> W(128), z2 |-> W(128), z3 |-> W(128), z4 |-> <<11482, 56927>>] }

RngInit ==
    /\ PhotonConstructed
    /\ DriverIdle
    /\ MediumIdle
    /\ z \in [Runs -> Uninitialized]
    /\ zsrc = [r \in Runs |-> "uninit"]
    /\ rpc = [r \in Runs |-> "initTrajectory"]
    /\ rdt = [r \in Runs |-> 1]
    /\ ndraws = [r \in Runs |-> 0]
    /\ draws = [r \in Runs |-> <<>>]
    /\ seeds \in [1..MaxT -> SeedTuples]

\* the executions are run one after the other
RngTurn(r) == \A q \in Runs : q < r => rpc[q] = "joined"

\* double Photon::getRandNum(): one HybridTaus call on the walker's words
getRandNum(r, zr, dr) ==
    [z |-> HybridTausState(zr),
     draws |-> Append(dr, [w |-> HybridTausWord(zr), src |-> zsrc[r]])]

\* void Photon::initTrajectory(): two draws (cos_theta, then psi)
initTrajectory(r, zr, dr) ==
    LET d1 == getRandNum(r, zr, dr)
    IN  getRandNum(r, d1.z, d1.draws)

\* injectPhoton, first statement: initTrajectory() runs before initRNG()
RngInitTrajectory(r) ==
    /\ RngTurn(r)
    /\ rpc[r] = "initTrajectory"
    /\ LET t == initTrajectory(r, z[r], draws[r])
       IN  /\ z' = [z EXCEPT ![r] = t.z]
           /\ draws' = [draws EXCEPT ![r] = t.draws]
    /\ rpc' = [rpc EXCEPT ![r] = "initRNG"]
    /\ UNCHANGED <<zsrc, rdt, ndraws, seeds, photonVars, driverVars, mediumVars, planarVars>>

\* void Photon::initRNG(state1, state2, state3, state4)
initRNG(s) == [z1 |-> s.z1, z2 |-> s.z2, z3 |-> s.z3, z4 |-> s.z4]

RngInitRNG(r) ==
    /\ RngTurn(r)
    /\ rpc[r] = "initRNG"
    /\ z' = [z EXCEPT ![r] = initRNG(seeds[rdt[r]])]
    /\ zsrc' = [zsrc EXCEPT ![r] = "seeded"]
    /\ rpc' = [rpc EXCEPT ![r] = "propagatePhoton"]
    /\ UNCHANGED <<rdt, ndraws, draws, seeds, photonVars, driverVars, mediumVars, planarVars>>

\* one getRandNum call made while propagatePhoton runs (setStepSize, spin,
\* transmitOrReflect, performRoulette, or initTrajectory of reset)
RngGetRandNum(r) ==
    /\ RngTurn(r)
    /\ rpc[r] = "propagatePhoton"
    /\ ndraws[r] < MaxDraws
    /\ LET t == getRandNum(r, z[r], draws[r])
       IN  /\ z' = [z EXCEPT ![r] = t.z]
           /\ draws' = [draws EXCEPT ![r] = t.draws]
    /\ ndraws' = [ndraws EXCEPT ![r] = @ + 1]
    /\ UNCHANGED <<zsrc, rpc, rdt, seeds, photonVars, driverVars, mediumVars, planarVars>>

\* propagatePhoton returns (its draws beyond the first MaxDraws are not
\* followed), the driver joins the thread and starts the next time index
\* with the same Photon object
RngJoin(r) ==
    /\ RngTurn(r)
    /\ rpc[r] = "propagatePhoton"
    /\ ndraws[r] = MaxDraws
    /\ rpc' = [rpc EXCEPT ![r] = IF rdt[r] < MaxT THEN "initTrajectory" ELSE "joined"]
    /\ rdt' = [rdt EXCEPT ![r] = IF rdt[r] < MaxT THEN @ + 1 ELSE @]
    /\ zsrc' = [zsrc EXCEPT ![r] = IF rdt[r] < MaxT THEN "stale" ELSE @]
    /\ ndraws' = [ndraws EXCEPT ![r] = 0]
    /\ UNCHANGED <<z, draws, seeds, photonVars, driverVars, mediumVars, planarVars>>

RngNext ==
    \/ \E r \in Runs : RngInitTrajectory(r)
    \/ \E r \in Runs : RngInitRNG(r)
    \/ \E r \in Runs : RngGetRandNum(r)
    \/ \E r \in Runs : RngJoin(r)

SpecRNG == RngInit /\ [][RngNext]_vars

(***************************************************************************)
(* Spec: one walker.  Each action is one function of Photon; pc follows    *)
(* the statements of propagatePhoton, checkMediumBoundary and              *)
(* transmitOrReflect that call them.  A random draw is a choice from the   *)
(* values the model tells apart.                                           *)
(***************************************************************************)

\* the generator is not followed in Spec
RngIdle ==
    /\ z = [r \in Runs |-> [z1 |-> W(0), z2 |-> W(0), z3 |-> W(0), z4 |-> W(0)]]
    /\ zsrc = [r \in Runs |-> "uninit"]
    /\ rpc = [r \in Runs |-> "joined"]
    /\ rdt = [r \in Runs |-> 1]
    /\ ndraws = [r \in Runs |-> 0]
    /\ draws = [r \in Runs |-> <<>>]
    /\ seeds = [t \in 1..MaxT |-> [z1 |-> W(200), z2 |-> W(201), z3 |-> W(202), z4 |-> W(203)]]

Init == RngIdle /\ PhotonConstructed /\ DriverIdle /\ MediumIdle

\* weight < THRESHOLD
belowThreshold(w) == w * 100 < THRESHOLD_PCT * WUnit

\* the statement that follows the body of the while loop, and the one that
\* follows reset(): the loop conditions of propagatePhoton
afterResetOneMore(i) == IF i <= MaxIterations THEN "while" ELSE "returned"
afterReset(i) == IF i < MaxIterations THEN "while" ELSE "returned"

\* void Photon::injectPhoton(...): initTrajectory, initAbsorptionArray,
\* initRNG, the medium, the injection point and the current layer; then the
\* call of propagatePhoton(iterations)
InjectPhoton ==
    /\ pc = "injectPhoton"
    /\ \E d \in InitDirs : direction' = d
    /\ unitDir' = FALSE
    /\ planar' = 0
    /\ location' = injectionCoords
    /\ currLayer' = getLayerFromDepth(injectionCoords[3])
    /\ cnt' = 0
    /\ pc' = afterReset(0)
    /\ op' = "injectPhoton"
    /\ rPos' = rPos
    /\ UNCHANGED <<rngVars, driverVars, mediumVars, planarVars>>
    /\ rnd' = 0
    /\ opDraws' = 2
    /\ postInit' = [PhotonState EXCEPT !.direction = direction',
                                       !.location = location',
                                       !.currLayer = currLayer']
    /\ UNCHANGED <<status, weight, tagged, step, step_remainder, hit_x_bound,
                   hit_y_bound, hit_z_bound, transmission_angle, num_steps,
                   deposited, exitData>>

\* void Photon::setStepSize(): a new step is drawn when step_remainder is 0,
\* otherwise the remainder is resumed
SetStepSize ==
    /\ pc = "while"
    /\ status = ALIVE
    /\ LET mu_a == getAbsorpCoeff(currLayer, location)
           mu_s == getScatterCoeff(currLayer, location)
       IN  IF step_remainder = 0
           THEN /\ \E s \in 1..MaxStep : step' = s
                /\ step_remainder' = step_remainder
                /\ opDraws' = 1
           ELSE /\ step' = step_remainder \div (mu_a + mu_s)
                /\ step_remainder' = 0
                /\ opDraws' = 0
    /\ pc' = "hitMediumBoundary"
    /\ op' = "setStepSize"
    /\ rPos' = rPos
    /\ UNCHANGED <<rngVars, driverVars, mediumVars, planarVars>>
    /\ rnd' = 0
    /\ UNCHANGED <<status, weight, tagged, location, direction, unitDir,
                   hit_x_bound, hit_y_bound, hit_z_bound, transmission_angle,
                   currLayer, num_steps, cnt, deposited, planar, exitData,
                   postInit>>

\* checkMediumBoundary(): the call of hitMediumBoundary()
HitMediumBoundary ==
    /\ pc = "hitMediumBoundary"
    /\ LET h == hitMediumBoundary(location, direction, step, step_remainder,
                                  hit_x_bound, hit_y_bound, hit_z_bound,
                                  getTotalAttenuationCoeff(currLayer, location))
       IN  /\ step' = h.step
           /\ step_remainder' = h.step_remainder
           /\ hit_x_bound' = h.hx
           /\ hit_y_bound' = h.hy
           /\ hit_z_bound' = h.hz
           /\ pc' = IF h.ret THEN "hopToBoundary" ELSE "hop"
    /\ op' = "hitMediumBoundary"
    /\ rPos' = rPos
    /\ UNCHANGED <<rngVars, driverVars, mediumVars, planarVars>>
    /\ rnd' = 0
    /\ opDraws' = 0
    /\ UNCHANGED <<status, weight, tagged, location, direction, unitDir,
                   transmission_angle, currLayer, num_steps, cnt, deposited,
                   planar, exitData, postInit>>

\* void Photon::hop(): called by propagatePhoton, and by checkMediumBoundary
\* to move the photon to the boundary
Hop ==
    /\ pc \in {"hop", "hopToBoundary"}
    /\ num_steps' = IF num_steps < MaxNumSteps THEN num_steps + 1 ELSE num_steps
    /\ location' = <<location[1] + (step * direction[1]),
                     location[2] + (step * direction[2]),
                     location[3] + (step * direction[3])>>
    /\ pc' = IF pc = "hop" THEN "drop" ELSE "transmitOrReflect"
    /\ op' = "hop"
    /\ rPos' = rPos
    /\ UNCHANGED <<rngVars, driverVars, mediumVars, planarVars>>
    /\ rnd' = 0
    /\ opDraws' = 0
    /\ UNCHANGED <<status, weight, tagged, direction, unitDir, step,
                   step_remainder, hit_x_bound, hit_y_bound, hit_z_bound,
                   transmission_angle, currLayer, cnt, deposited, planar,
                   exitData, postInit>>

\* void Photon::drop(): the absorbed fraction leaves the weight and is added
\* to the absorber when the photon is inside one; the calls that add it to
\* the planar array are commented out
absorbedWeightNegated(w, mu_a, mu_s) == 0 - ((w * mu_a) \div (mu_a + mu_s))
absorbedWeightNone(w, mu_a, mu_s) == 0
absorbedWeight(w, mu_a, mu_s) == (w * mu_a) \div (mu_a + mu_s)

Drop ==
    /\ pc \in {"drop", "dropReflected"}
    /\ IF status = DEAD
       THEN UNCHANGED <<weight, deposited, tagged>>
       ELSE LET inAbsorber == getAbsorber(location)
                mu_a == IF inAbsorber THEN absorber0.mu_a ELSE p_layers[currLayer].mu_a
                mu_s == IF inAbsorber THEN absorber0.mu_s ELSE p_layers[currLayer].mu_s
                absorbed == absorbedWeight(weight, mu_a, mu_s)
            IN  /\ weight' = weight - absorbed
                /\ deposited' = IF inAbsorber THEN deposited + absorbed ELSE deposited
                /\ tagged' = IF inAbsorber THEN TRUE ELSE tagged
    /\ pc' = IF pc = "drop" THEN "spin" ELSE "performRoulette"
    /\ op' = "drop"
    /\ rPos' = rPos
    /\ UNCHANGED <<rngVars, driverVars, mediumVars, planarVars>>
    /\ rnd' = 0
    /\ opDraws' = 0
    /\ UNCHANGED <<status, location, direction, unitDir, step, step_remainder,
                   hit_x_bound, hit_y_bound, hit_z_bound, transmission_angle,
                   currLayer, num_steps, cnt, planar, exitData, postInit>>

\* void Photon::spin(): two draws give the new direction cosines
Spin ==
    /\ pc = "spin"
    /\ IF status = DEAD
       THEN UNCHANGED <<direction, unitDir>> /\ opDraws' = 0
       ELSE /\ \E d \in Dirs : direction' = d
            /\ unitDir' = TRUE
            /\ opDraws' = 2
    /\ pc' = "performRoulette"
    /\ op' = "spin"
    /\ rPos' = rPos
    /\ UNCHANGED <<rngVars, driverVars, mediumVars, planarVars>>
    /\ rnd' = 0
    /\ UNCHANGED <<status, weight, tagged, location, step, step_remainder,
                   hit_x_bound, hit_y_bound, hit_z_bound, transmission_angle,
                   currLayer, num_steps, cnt, deposited, planar, exitData,
                   postInit>>

\* getRandNum() <= CHANCE, for a draw given in hundredths
rouletteSurvivesStrict(u) == u < CHANCE_PCT
rouletteSurvives(u) == u <= CHANCE_PCT

\* void Photon::performRoulette(void)
PerformRoulette ==
    /\ pc = "performRoulette"
    /\ IF status = DEAD \/ ~belowThreshold(weight)
       THEN UNCHANGED <<weight, status>> /\ opDraws' = 0 /\ rnd' = 0
       ELSE \E u \in RandPct :
              /\ rouletteSurvives(u) => num_steps < MaxNumSteps
              /\ rnd' = u
              /\ opDraws' = 1
              /\ IF rouletteSurvives(u)
                 THEN weight' = (weight * 100) \div CHANCE_PCT /\ status' = status
                 ELSE weight' = weight /\ status' = DEAD
    /\ pc' = "while"
    /\ op' = "performRoulette"
    /\ rPos' = rPos
    /\ UNCHANGED <<rngVars, driverVars, mediumVars, planarVars>>
    /\ UNCHANGED <<tagged, location, direction, unitDir, step, step_remainder,
                   hit_x_bound, hit_y_bound, hit_z_bound, transmission_angle,
                   currLayer, num_steps, cnt, deposited, planar, exitData,
                   postInit>>

\* double Photon::getMediumReflectance(void): the values the reflectance can
\* take.  "one": the incident angle is above the critical angle; "fresnel":
\* a value strictly between 0 and 1; "nan": the incident angle is 0 and the
\* Fresnel formula divides 0 by 0.  The direction cosine of a normalised
\* direction is its component over its length; of the direction set by
\* initTrajectory only the z component (1.0) is known.
axisDirection(dir, hx, hy) == IF hx THEN dir[1] ELSE IF hy THEN dir[2] ELSE dir[3]

getMediumReflectance(dir, unit, hx, hy, layer) ==
    LET a  == axisDirection(dir, hx, hy)
        nn == (dir[1] * dir[1]) + (dir[2] * dir[2]) + (dir[3] * dir[3])
        n2 == p_layers[layer].n100 * p_layers[layer].n100
    IN  IF a = 0 THEN {"one"}
        ELSE IF ~unit
             THEN (IF ~hx /\ ~hy THEN {"nan"} ELSE {"one", "fresnel"})
        ELSE IF nn = 1 THEN {"nan"}
        ELSE IF (a * a) * n2 < (n2 - 10000) * nn THEN {"one"}
        ELSE {"fresnel"}

\* getMediumReflectance() > getRandNum(): whether the photon can be reflected
\* (TRUE) or transmitted (FALSE), over the draws in [0, 1).  A reflectance of
\* 1 is above every draw, a NaN is above none.
reflectsInverted(R) == IF R = "nan" THEN {FALSE} ELSE IF R = "one" THEN {FALSE} ELSE BOOLEAN
reflects(R) == IF R = "nan" THEN {FALSE} ELSE IF R = "one" THEN {TRUE} ELSE BOOLEAN

\* internallyReflectX / Y / Z, the one transmitOrReflect calls for the flags:
\* the direction it leaves
internallyReflectNone(dir, hx, hy, hz) == dir
internallyReflect(dir, hx, hy, hz) ==
    IF hx THEN <<-dir[1], dir[2], dir[3]>>
    ELSE IF hy THEN <<dir[1], -dir[2], dir[3]>>
    ELSE IF hz THEN <<dir[1], dir[2], -dir[3]>>
    ELSE dir

\* void Photon::transmitOrReflect("medium"): the reflectance is compared
\* with a draw; the photon is reflected on the flagged axis, or transmitted
\* (transmit("medium"): the detector is checked, the photon is killed)
TransmitOrReflect ==
    /\ pc = "transmitOrReflect"
    /\ \E R \in getMediumReflectance(direction, unitDir, hit_x_bound, hit_y_bound, currLayer) :
       \E reflect \in reflects(R) :
         /\ transmission_angle' =
              IF R = "one" THEN transmission_angle ELSE IF R = "nan" THEN 0 ELSE 1
         /\ IF reflect
            THEN /\ direction' = internallyReflect(direction, hit_x_bound,
                                                   hit_y_bound, hit_z_bound)
                 /\ hit_x_bound' = FALSE
                 /\ hit_y_bound' = (hit_y_bound /\ hit_x_bound)
                 /\ hit_z_bound' = (hit_z_bound /\ (hit_x_bound \/ hit_y_bound))
                 /\ pc' = "dropReflected"
                 /\ UNCHANGED <<status, exitData>>
            ELSE /\ exitData' =
                      IF checkDetector(location)
                      THEN Append(exitData, [location |-> location,
                                             direction |-> direction,
                                             transmission_angle |-> transmission_angle',
                                             weight |-> weight])
                      ELSE exitData
                 /\ status' = DEAD
                 /\ pc' = "while"
                 /\ UNCHANGED <<direction, hit_x_bound, hit_y_bound, hit_z_bound>>
    /\ op' = "transmitOrReflect"
    /\ rPos' = rPos
    /\ UNCHANGED <<rngVars, driverVars, mediumVars, planarVars>>
    /\ rnd' = 0
    /\ opDraws' = 1
    /\ UNCHANGED <<weight, tagged, location, unitDir, step, step_remainder,
                   currLayer, num_steps, cnt, deposited, planar, postInit>>

\* void Photon::reset(): the fields it assigns, given the direction that
\* its call of initTrajectory draws
resetKeepsRemainder(st, d) ==
    [st EXCEPT !.status = ALIVE,
               !.weight = WUnit,
               !.tagged = FALSE,
               !.location = injectionCoords,
               !.step = 0,
               !.hit_x_bound = FALSE,
               !.hit_y_bound = FALSE,
               !.hit_z_bound = FALSE,
               !.transmission_angle = 0,
               !.direction = d,
               !.currLayer = getLayerFromDepth(injectionCoords[3])]
reset(st, d) ==
    [st EXCEPT !.status = ALIVE,
               !.weight = WUnit,
               !.tagged = FALSE,
               !.location = injectionCoords,
               !.step = 0,
               !.step_remainder = 0,
               !.hit_x_bound = FALSE,
               !.hit_y_bound = FALSE,
               !.hit_z_bound = FALSE,
               !.transmission_angle = 0,
               !.direction = d,
               !.currLayer = getLayerFromDepth(injectionCoords[3])]

\* reset() runs when the while loop of propagatePhoton ends; then the for
\* loop goes on or the thread returns
Reset ==
    /\ pc = "while"
    /\ status = DEAD
    /\ \E d \in InitDirs :
         LET r == reset(PhotonState, d)
         IN  /\ status' = r.status
             /\ weight' = r.weight
             /\ tagged' = r.tagged
             /\ location' = r.location
             /\ step' = r.step
             /\ step_remainder' = r.step_remainder
             /\ hit_x_bound' = r.hit_x_bound
             /\ hit_y_bound' = r.hit_y_bound
             /\ hit_z_bound' = r.hit_z_bound
             /\ transmission_angle' = r.transmission_angle
             /\ direction' = r.direction
             /\ currLayer' = r.currLayer
    /\ num_steps' = 0
    /\ unitDir' = FALSE
    /\ cnt' = cnt + 1
    /\ pc' = afterReset(cnt + 1)
    /\ deposited' = 0
    /\ exitData' = <<>>
    /\ op' = "reset"
    /\ rPos' = 0
    /\ UNCHANGED <<rngVars, driverVars, mediumVars, planarVars>>
    /\ rnd' = 0
    /\ opDraws' = 2
    /\ UNCHANGED <<planar, postInit>>

Next ==
    \/ InjectPhoton
    \/ SetStepSize
    \/ HitMediumBoundary
    \/ Hop
    \/ Drop
    \/ Spin
    \/ PerformRoulette
    \/ TransmitOrReflect
    \/ Reset

Spec == Init /\ [][Next]_vars

\* SpecLayered: the walker in a Medium to which two contiguous layers of the
\* same tissue have been added, the first one holding the injection point
LayeredInit ==
    /\ RngIdle /\ PhotonConstructed /\ DriverIdle /\ PlanarConstructed("done")
    /\ mphase = "run"
    /\ m_layers = <<[depth_start |-> 0, depth_end |-> injectionCoords[3]],
                    [depth_start |-> injectionCoords[3], depth_end |-> z_bound]>>
    /\ m_detectors = <<>>
    /\ call = NoCall

SpecLayered == LayeredInit /\ [][Next]_vars

\* the roulette draw that kills the photon
RouletteDies == PerformRoulette /\ status = ALIVE /\ status' = DEAD

\* SpecLive: the thread is scheduled while it has a statement to run, and a
\* roulette draw above CHANCE comes up if the roulette is played again and
\* again
SpecLive == Spec /\ WF_vars(Next) /\ SF_vars(RouletteDies)


(***************************************************************************)
(* SpecDriver: runAcoustoOptics.  For every time index the driver seeds    *)
(* rand, opens the exit file, loads the pressure and displacement frames,  *)
(* launches one thread per Photon object and joins them all.  A walker     *)
(* thread runs its cycles on its own and returns.                          *)
(***************************************************************************)
DriverInit ==
    RngIdle /\ PhotonConstructed /\ DriverConstructed("srand") /\ MediumIdle

\* srand(time(0)): the clock has advanced by some whole number of seconds
\* since it was last read
DriverSrand ==
    /\ dpc = "srand"
    /\ \E now \in clock..MaxClock : clock' = now /\ srandSeed' = now
    /\ randCalls' = 0
    /\ dpc' = "openExitFile"
    /\ UNCHANGED <<dt, di, threadSeeds, threads, iterationsDone, exitFile, pressureFrame,
                   displacementFrame, rngVars, photonVars, mediumVars, planarVars>>

\* Logger::getInstance()->openExitFile(exit_data_file)
DriverOpenExitFile ==
    /\ dpc = "openExitFile"
    /\ exitFile' = dt
    /\ dpc' = "loadPressure"
    /\ UNCHANGED <<clock, srandSeed, randCalls, threadSeeds,
                   dt, di, threads, iterationsDone, pressureFrame,
                   displacementFrame, rngVars, photonVars, mediumVars, planarVars>>

\* tissue->loadPressure(pressure_file, dt)
DriverLoadPressure ==
    /\ dpc = "loadPressure"
    /\ pressureFrame' = dt
    /\ dpc' = "loadDisplacements"
    /\ UNCHANGED <<clock, srandSeed, randCalls, threadSeeds,
                   dt, di, threads, iterationsDone, exitFile,
                   displacementFrame, rngVars, photonVars, mediumVars, planarVars>>

\* tissue->loadDisplacements(displacement_file, dt)
DriverLoadDisplacements ==
    /\ dpc = "loadDisplacements"
    /\ displacementFrame' = dt
    /\ di' = 0
    /\ dpc' = "launch"
    /\ UNCHANGED <<clock, srandSeed, randCalls, threadSeeds,
                   dt, threads, iterationsDone, exitFile, pressureFrame,
                   rngVars, photonVars, mediumVars, planarVars>>

\* s1..s4 = rand() + 128, threads[i] = boost::thread(&Photon::injectPhoton,
\* &photons[i], ...), and the condition of the launch loop
DriverLaunch ==
    /\ dpc = "launch"
    /\ randCalls' = randCalls + 4
    /\ threadSeeds' = [threadSeeds EXCEPT
                         ![di + 1] = <<srandSeed, randCalls + 1, randCalls + 4>>]
    /\ threads' = [threads EXCEPT ![di + 1] = "running"]
    /\ iterationsDone' = [iterationsDone EXCEPT ![di + 1] = 0]
    /\ di' = IF di + 1 < NumThreads THEN di + 1 ELSE 0
    /\ dpc' = IF di + 1 < NumThreads THEN "launch" ELSE "join"
    /\ UNCHANGED <<dt, clock, srandSeed, exitFile, pressureFrame,
                   displacementFrame, rngVars, photonVars, mediumVars, planarVars>>

\* one cycle of propagatePhoton in the walker of thread t
WalkerCycle(t) ==
    /\ threads[t] = "running"
    /\ iterationsDone[t] < MaxIterations
    /\ iterationsDone' = [iterationsDone EXCEPT ![t] = @ + 1]
    /\ UNCHANGED <<clock, srandSeed, randCalls, threadSeeds,
                   dpc, dt, di, threads, exitFile, pressureFrame,
                   displacementFrame, rngVars, photonVars, mediumVars, planarVars>>

\* injectPhoton returns in thread t
WalkerReturn(t) ==
    /\ threads[t] = "running"
    /\ iterationsDone[t] = MaxIterations
    /\ threads' = [threads EXCEPT ![t] = "finished"]
    /\ UNCHANGED <<clock, srandSeed, randCalls, threadSeeds,
                   dpc, dt, di, iterationsDone, exitFile, pressureFrame,
                   displacementFrame, rngVars, photonVars, mediumVars, planarVars>>

\* threads[i].join() returns once the thread's function has returned
joinReturnsAtOnce(st) == TRUE
joinReturns(st) == st = "finished"

\* threads[i].join(), and the condition of the join loop
DriverJoin ==
    /\ dpc = "join"
    /\ joinReturns(threads[di + 1])
    /\ threads' = [threads EXCEPT ![di + 1] = IF @ = "finished" THEN "joined" ELSE @]
    /\ di' = IF di + 1 < NumThreads THEN di + 1 ELSE 0
    /\ dpc' = IF di + 1 < NumThreads THEN "join" ELSE "endOfStep"
    /\ UNCHANGED <<clock, srandSeed, randCalls, threadSeeds,
                   dt, iterationsDone, exitFile, pressureFrame,
                   displacementFrame, rngVars, photonVars, mediumVars, planarVars>>

\* the end of the body of the for loop: dt++ and its condition
DriverEndOfStep ==
    /\ dpc = "endOfStep"
    /\ dt' = IF dt < MaxT THEN dt + 1 ELSE dt
    /\ dpc' = IF dt < MaxT THEN "srand" ELSE "done"
    /\ UNCHANGED <<clock, srandSeed, randCalls, threadSeeds,
                   di, threads, iterationsDone, exitFile, pressureFrame,
                   displacementFrame, rngVars, photonVars, mediumVars, planarVars>>

DriverNext ==
    \/ DriverSrand
    \/ DriverOpenExitFile
    \/ DriverLoadPressure
    \/ DriverLoadDisplacements
    \/ DriverLaunch
    \/ \E t \in 1..NumThreads : WalkerCycle(t)
    \/ \E t \in 1..NumThreads : WalkerReturn(t)
    \/ DriverJoin
    \/ DriverEndOfStep

SpecDriver == DriverInit /\ [][DriverNext]_vars


(***************************************************************************)
(* SpecMedium: a Medium is built by addLayer and addDetector, as            *)
(* runAcoustoOptics builds its own, then the walkers are started and look   *)
(* layers and detectors up.  addLayer and addDetector take any layer and    *)
(* detector, so the model adds any.                                         *)
(***************************************************************************)

MediumInit ==
    /\ RngIdle /\ PhotonConstructed /\ DriverIdle
    /\ MediumConstructed("build") /\ PlanarConstructed("done")

\* void Medium::addLayer(Layer *layer): p_layers.push_back(layer)
AddLayer ==
    /\ mphase = "build"
    /\ Len(m_layers) < MaxLayers
    /\ \E a \in 0..z_bound, b \in 0..z_bound :
         /\ a < b
         /\ m_layers' = Append(m_layers, [depth_start |-> a, depth_end |-> b])
    /\ UNCHANGED <<mphase, m_detectors, call, rngVars, photonVars, driverVars,
                   planarVars>>

\* void Medium::addDetector(Detector *detector): p_detectors.push_back(detector)
AddDetector ==
    /\ mphase = "build"
    /\ Len(m_detectors) < MaxDetectors
    /\ \E radius \in 0..detectorRadius :
         m_detectors' = Append(m_detectors, radius)
    /\ UNCHANGED <<mphase, m_layers, call, rngVars, photonVars, driverVars,
                   planarVars>>

\* runAcoustoOptics goes from building the Medium to creating the walker
\* threads; nothing looks at the layers in between
StartWalkers ==
    /\ mphase = "build"
    /\ mphase' = "run"
    /\ UNCHANGED <<m_layers, m_detectors, call, rngVars, photonVars, driverVars,
                   planarVars>>

\* a walker calls getLayerFromDepth(z)
GetLayerFromDepth ==
    /\ mphase = "run"
    /\ call = NoCall
    /\ \E zz \in (0 - 1)..(z_bound + 1) :
       \E r \in getLayerFromDepthOf(m_layers, z_bound, zz) :
         call' = [fn |-> "getLayerFromDepth", arg |-> zz, ret |-> r]
    /\ UNCHANGED <<mphase, m_layers, m_detectors, rngVars, photonVars, driverVars,
                   planarVars>>

\* a walker calls getLayerBelowCurrent(z)
GetLayerBelowCurrent ==
    /\ mphase = "run"
    /\ call = NoCall
    /\ \E zz \in (0 - 1)..(z_bound + 1) :
       \E r \in getLayerBelowCurrent(m_layers, z_bound, zz) :
         call' = [fn |-> "getLayerBelowCurrent", arg |-> zz, ret |-> r]
    /\ UNCHANGED <<mphase, m_layers, m_detectors, rngVars, photonVars, driverVars,
                   planarVars>>

\* a walker calls getLayerAboveCurrent(currentLayer) with one of the
\* Medium's layers, or with NULL
GetLayerAboveCurrent ==
    /\ mphase = "run"
    /\ call = NoCall
    /\ \E k \in 0..Len(m_layers) :
       \E r \in getLayerAboveCurrent(m_layers, k) :
         call' = [fn |-> "getLayerAboveCurrent", arg |-> k, ret |-> r]
    /\ UNCHANGED <<mphase, m_layers, m_detectors, rngVars, photonVars, driverVars,
                   planarVars>>

\* the points of the exit plane a walker can leave the medium at
ExitPoints == {<<x, y, z_bound>> : x \in 0..x_bound, y \in {detectorCentre[2]}}

\* a walker calls photonHitDetectorPlane(p0)
PhotonHitDetectorPlane ==
    /\ mphase = "run"
    /\ call = NoCall
    /\ \E p0 \in ExitPoints :
         call' = [fn |-> "photonHitDetectorPlane", arg |-> p0,
                  ret |-> photonHitDetectorPlane(
                            [i \in 1..Len(m_detectors) |->
                               photonHitDetectorOf(m_detectors[i], p0)])]
    /\ UNCHANGED <<mphase, m_layers, m_detectors, rngVars, photonVars, driverVars,
                   planarVars>>

\* the walker has taken the value the lookup returned and goes on
LookupReturned ==
    /\ mphase = "run"
    /\ call # NoCall
    /\ call' = NoCall
    /\ UNCHANGED <<mphase, m_layers, m_detectors, rngVars, photonVars, driverVars,
                   planarVars>>

MediumNext ==
    \/ AddLayer
    \/ AddDetector
    \/ StartWalkers
    \/ GetLayerFromDepth
    \/ GetLayerBelowCurrent
    \/ GetLayerAboveCurrent
    \/ PhotonHitDetectorPlane
    \/ LookupReturned

SpecMedium == MediumInit /\ [][MediumNext]_vars

(***************************************************************************)
(* SpecPlanar: the planar array of a Medium and the threads that add to    *)
(* it through the two forms of absorbEnergy.  Cplanar[i] += e is a read of *)
(* the bin followed by a write, and the threads interleave at every step.  *)
(* Depths are in units of half a centimetre.                                *)
(***************************************************************************)

\* Medium::initCommon(): radial_size = 3.0 cm, num_radial_pos = MAX_BINS-1,
\* radial_bin_size = radial_size / num_radial_pos
radial_size == 6
num_radial_pos == MAX_BINS - 1
radial_bin_size == radial_size \div num_radial_pos

\* the indices of an array of MAX_BINS doubles
Bins == 0..(MAX_BINS - 1)

\* fabs(z) of a finite z
fabs(zz) == IF zz < 0 THEN 0 - zz ELSE zz

\* absorbEnergy(z, energy): int ir = (r/radial_size) with r = fabs(z)
absorbEnergyBin(zz) == fabs(zz) \div radial_size

\* the depths and energies absorbEnergy(z, energy) is called with, and the
\* arrays absorbEnergy(energy_array) is called with
AbsorbDepths == {0, 0 - radial_bin_size, radial_size}
AbsorbJobs ==
    {[form |-> "bin", z |-> zz, energy |-> 1, energy_array |-> <<>>] :
        zz \in AbsorbDepths}
    \cup
    {[form |-> "array", z |-> 0, energy |-> 0, energy_array |-> a] :
        a \in {[i \in Bins |-> 1],
                [i \in Bins |-> IF i = num_radial_pos THEN 2 ELSE 0]}}

\* what a call adds to bin i once it has returned
contribution(job, i) ==
    IF job.form = "bin"
    THEN (IF i = absorbEnergyBin(job.z) THEN job.energy ELSE 0)
    ELSE job.energy_array[i]

PlanarInit ==
    /\ RngIdle /\ PhotonConstructed /\ DriverIdle
    /\ MediumConstructed("done") /\ PlanarConstructed("idle")

\* void Medium::setPlanarArray(double *array): every bin is set to zero
SetPlanarArray ==
    /\ Cplanar = <<>>
    /\ Cplanar' = [i \in Bins |-> 0]
    /\ contributed' = [i \in Bins |-> 0]
    /\ UNCHANGED <<m_sensor_mutex, apc, ajob, ai, areg, ncalls,
                   rngVars, photonVars, driverVars, mediumVars>>

\* thread t calls one of the forms of absorbEnergy, once the array is set
AbsorbEnergyCall(t) ==
    /\ apc[t] = "idle"
    /\ Cplanar # <<>>
    /\ ncalls[t] < MaxAbsorbs
    /\ \E job \in AbsorbJobs : ajob' = [ajob EXCEPT ![t] = job]
    /\ ncalls' = [ncalls EXCEPT ![t] = @ + 1]
    /\ apc' = [apc EXCEPT ![t] = "lock"]
    /\ UNCHANGED <<Cplanar, m_sensor_mutex, ai, areg, contributed,
                   rngVars, photonVars, driverVars, mediumVars>>

\* boost::mutex::scoped_lock lock(m_sensor_mutex): the constructor returns
\* once the mutex is free, and the thread then holds it; the bin form
\* computes ir, the array form starts its loop at 0
mutexFreeAlways(m) == TRUE
mutexFree(m) == m = 0

AbsorbEnergyLock(t) ==
    /\ apc[t] = "lock"
    /\ mutexFree(m_sensor_mutex)
    /\ m_sensor_mutex' = t
    /\ ai' = [ai EXCEPT ![t] = IF ajob[t].form = "bin"
                                THEN absorbEnergyBin(ajob[t].z) ELSE 0]
    /\ apc' = [apc EXCEPT ![t] = "read"]
    /\ UNCHANGED <<Cplanar, ajob, areg, ncalls, contributed,
                   rngVars, photonVars, driverVars, mediumVars>>

\* Cplanar[i] += ...: the bin is read
AbsorbEnergyRead(t) ==
    /\ apc[t] = "read"
    /\ areg' = [areg EXCEPT ![t] = Cplanar[ai[t]]]
    /\ apc' = [apc EXCEPT ![t] = "write"]
    /\ UNCHANGED <<Cplanar, m_sensor_mutex, ajob, ai, ncalls, contributed,
                   rngVars, photonVars, driverVars, mediumVars>>

\* Cplanar[i] += ...: the sum is written back; the array form goes on to
\* the next bin
AbsorbEnergyWrite(t) ==
    /\ apc[t] = "write"
    /\ Cplanar' = [Cplanar EXCEPT ![ai[t]] =
                      areg[t] + (IF ajob[t].form = "bin" THEN ajob[t].energy
                                 ELSE ajob[t].energy_array[ai[t]])]
    /\ IF ajob[t].form = "array" /\ ai[t] + 1 < MAX_BINS
       THEN /\ ai' = [ai EXCEPT ![t] = @ + 1]
            /\ apc' = [apc EXCEPT ![t] = "read"]
       ELSE /\ ai' = ai
            /\ apc' = [apc EXCEPT ![t] = "return"]
    /\ UNCHANGED <<m_sensor_mutex, ajob, areg, ncalls, contributed,
                   rngVars, photonVars, driverVars, mediumVars>>

\* absorbEnergy returns: the destructor of the scoped_lock releases the
\* mutex
AbsorbEnergyReturn(t) ==
    /\ apc[t] = "return"
    /\ m_sensor_mutex' = 0
    /\ contributed' = [i \in Bins |-> contributed[i] + contribution(ajob[t], i)]
    /\ ajob' = [ajob EXCEPT ![t] = <<>>]
    /\ ai' = [ai EXCEPT ![t] = 0]
    /\ areg' = [areg EXCEPT ![t] = 0]
    /\ apc' = [apc EXCEPT ![t] = "idle"]
    /\ UNCHANGED <<Cplanar, ncalls,
                   rngVars, photonVars, driverVars, mediumVars>>

PlanarNext ==
    \/ SetPlanarArray
    \/ \E t \in 1..NumThreads :
         \/ AbsorbEnergyCall(t)
         \/ AbsorbEnergyLock(t)
         \/ AbsorbEnergyRead(t)
         \/ AbsorbEnergyWrite(t)
         \/ AbsorbEnergyReturn(t)

SpecPlanar == PlanarInit /\ [][PlanarNext]_vars

(***************************************************************************)
(* Claims about the generator and the order of seeding (SpecRNG).          *)
(***************************************************************************)

\* C1: every value returned by getRandNum from state words that come from
\* seeds >= 128 lies strictly between 0 and 1: the word that is scaled by
\* 2.3283064365387e-10 (the XOR of the three Tausworthe outputs and the LCG
\* output) is never 0.
C1_DrawsInOpenUnitInterval ==
    \A r \in Runs : \A i \in 1..Len(draws[r]) :
        draws[r][i].src # "uninit" => draws[r][i].w # Zero32

\* C8: two executions with one thread and the same seed words make the same
\* sequence of random draws (and so follow the same trajectory, from the
\* direction of the first cycle on): the i-th draws of the two agree.
C8_SameSeedsSameDraws ==
    \A i \in 1..Len(draws[1]) :
        i <= Len(draws[2]) => draws[1][i].w = draws[2][i].w

\* C28: every draw of a walker reads state words that initRNG has set from
\* the seeds passed to the injectPhoton call it is made in: none reads
\* words that were never set, or words left by an earlier time index.
C28_DrawsAfterSeeding ==
    \A r \in Runs : \A i \in 1..Len(draws[r]) : draws[r][i].src = "seeded"

(***************************************************************************)
(* Claims about the walker (Spec).                                         *)
(***************************************************************************)
\* C2: after every hop, the hop onto a medium boundary included, the photon
\* lies in the closed box [0,X] x [0,Y] x [0,Z].
C2_HopStaysInBox ==
    op = "hop" =>
        /\ 0 <= location[1] /\ location[1] <= x_bound
        /\ 0 <= location[2] /\ location[2] <= y_bound
        /\ 0 <= location[3] /\ location[3] <= z_bound

\* C3: between injection and death the weight never increases across an
\* operation, except at a roulette survival, where it becomes exactly
\* weight / CHANCE.
C3_MonotoneWeight ==
    [][ op' \notin {"injectPhoton", "reset"} =>
          IF op' = "performRoulette" /\ rnd' # 0 /\ rnd' <= CHANCE_PCT
          THEN weight' * CHANCE_PCT = weight * 100
          ELSE weight' <= weight ]_vars

C3_Witness ==
    /\ op = "performRoulette" /\ rnd = 5 /\ status = ALIVE
    /\ weight = WUnit \div 1000

\* C4: every weight decrement made by drop is added to exactly one
\* accumulator, the absorber's deposited energy or the planar array.
C4_DropIsDeposited ==
    [][ op' = "drop" =>
          (deposited' + planar') - (deposited + planar) = weight - weight' ]_vars

\* C5: the walker runs exactly MaxIterations cycles; every cycle starts
\* with the photon ALIVE, with weight 1, at the injection point, with
\* step = step_remainder = 0 and the boundary flags cleared; and a cycle
\* ends (the loop variable advances) only when the photon is DEAD.
C5_Cycles ==
    [][ /\ (op' \in {"injectPhoton", "reset"} /\ pc' = "while") =>
             /\ status' = ALIVE /\ weight' = WUnit
             /\ location' = injectionCoords
             /\ step' = 0 /\ step_remainder' = 0
             /\ ~hit_x_bound' /\ ~hit_y_bound' /\ ~hit_z_bound'
        /\ cnt' # cnt => (status = DEAD /\ cnt' = cnt + 1)
        /\ pc' = "returned" => cnt' = MaxIterations
        /\ cnt' <= MaxIterations ]_vars

C5_Witness == pc = "returned" /\ cnt = MaxIterations /\ op = "reset"

\* C9: performRoulette on an ALIVE photon draws nothing and changes nothing
\* when weight >= THRESHOLD; otherwise it draws one u, and with u <= CHANCE
\* the weight becomes weight / CHANCE and the photon stays ALIVE, else the
\* photon becomes DEAD with its weight unchanged.
C9_Roulette ==
    [][ (pc = "performRoulette" /\ op' = "performRoulette" /\ status = ALIVE) =>
          IF weight * 100 >= THRESHOLD_PCT * WUnit
          THEN opDraws' = 0 /\ PhotonState' = PhotonState
          ELSE /\ opDraws' = 1
               /\ rnd' * 10 <= 100 * 1 =>
                    (weight' * 10 = weight * 100 /\ status' = ALIVE)
               /\ rnd' * 10 > 100 * 1 =>
                    (weight' = weight /\ status' = DEAD) ]_vars

\* w = 0.001 and u = 0.10 give w = 0.01
C9_Witness ==
    /\ op = "performRoulette" /\ rnd = 10 /\ status = ALIVE
    /\ weight = 10000

\* C10 as stated: after reset() the Photon state, direction included, is
\* the state the photon had right after its initialisation at injection.
C10_ResetRestoresAll == op = "reset" => PhotonState = postInit

\* C10 amended: after reset() the Photon state is the state right after the
\* initialisation at injection in every field but the direction, which
\* initTrajectory draws afresh.
C10_ResetRestoresAllButDirection ==
    op = "reset" =>
        [PhotonState EXCEPT !.direction = <<0, 0, 0>>]
            = [postInit EXCEPT !.direction = <<0, 0, 0>>]

C10_Witness ==
    /\ op = "reset" /\ direction # postInit.direction
    /\ PhotonState # postInit

C12_TotalInternalReflection ==
    [][ ( /\ pc = "transmitOrReflect" /\ op' = "transmitOrReflect"
          /\ getMediumReflectance(direction, unitDir, hit_x_bound, hit_y_bound,
                                  currLayer) = {"one"} ) =>
          /\ pc' = "dropReflected"
          /\ status' = ALIVE
          /\ exitData' = exitData
          /\ LET k == IF hit_x_bound THEN 1 ELSE IF hit_y_bound THEN 2 ELSE 3
             IN  \A j \in 1..3 :
                   direction'[j] = IF j = k THEN 0 - direction[j] ELSE direction[j] ]_vars

\* a reflection at incidence above the critical angle, on a space diagonal
C12_Witness ==
    /\ op = "transmitOrReflect" /\ pc = "dropReflected" /\ unitDir
    /\ direction[1] # 0 /\ direction[2] # 0 /\ direction[3] # 0

\* C20: the walker's running length is 0 when a cycle starts and grows by
\* the step length on every hop, and the exit record written on a detected
\* exit carries it as its path length.
C20_PathLengthAccumulated ==
    [][ /\ op' = "reset" => rPos' = 0
        /\ (pc \in {"hop", "hopToBoundary"} /\ op' = "hop") => rPos' = rPos + step
        /\ Len(exitData') > Len(exitData) =>
              /\ "path_length" \in DOMAIN exitData'[Len(exitData')]
              /\ exitData'[Len(exitData')].path_length = rPos ]_vars

\* C21: when the projected end point of a step lies outside the box on two
\* or three axes (none of the flags being left set from an earlier step),
\* hitMediumBoundary flags exactly one axis, one whose boundary is at the
\* smallest distance among the crossed ones, and clips a longer step to that
\* distance.
C21_NearestBoundary ==
    [][ (pc = "hitMediumBoundary" /\ op' = "hitMediumBoundary") =>
          LET bound == <<x_bound, y_bound, z_bound>>
              proj == [k \in 1..3 |-> (step * direction[k]) + location[k]]
              crossed == {k \in 1..3 : proj[k] >= bound[k] \/ proj[k] <= 0}
              dist == [k \in 1..3 |->
                         distanceToBoundary(location[k], direction[k], bound[k])]
              flagged == {k \in 1..3 : <<hit_x_bound', hit_y_bound', hit_z_bound'>>[k]}
          IN  ( /\ Cardinality(crossed) >= 2
                /\ \A k \in crossed : direction[k] # 0
                /\ ~hit_x_bound /\ ~hit_y_bound /\ ~hit_z_bound ) =>
                \E k \in crossed :
                   /\ \A j \in crossed : dist[k] <= dist[j]
                   /\ flagged = {k}
                   /\ dist[k] < step => step' = dist[k] ]_vars

\* C22: when exactly two boundaries are crossed and they are at the same
\* distance, hitMediumBoundary flags the one that comes first in the order
\* x, y, z.
C22_TieByAxisPriority ==
    [][ (pc = "hitMediumBoundary" /\ op' = "hitMediumBoundary") =>
          LET bound == <<x_bound, y_bound, z_bound>>
              proj == [k \in 1..3 |-> (step * direction[k]) + location[k]]
              crossed == {k \in 1..3 : proj[k] >= bound[k] \/ proj[k] <= 0}
              dist == [k \in 1..3 |->
                         distanceToBoundary(location[k], direction[k], bound[k])]
              flagged == {k \in 1..3 : <<hit_x_bound', hit_y_bound', hit_z_bound'>>[k]}
          IN  ( /\ Cardinality(crossed) = 2
                /\ \A k \in crossed : direction[k] # 0
                /\ \A j \in crossed, k \in crossed : dist[j] = dist[k]
                /\ ~hit_x_bound /\ ~hit_y_bound /\ ~hit_z_bound ) =>
                \E k \in crossed :
                   /\ \A j \in crossed : k <= j
                   /\ flagged = {k} ]_vars

C24_DropBeforeDecision ==
    [][ /\ (pc = "transmitOrReflect" /\ op' = "transmitOrReflect") => op = "drop"
        /\ (pc = "dropReflected" /\ op' = "drop") => pc' # "spin" ]_vars

\* C25: an internal reflection negates the direction component of the
\* flagged axis and no other, clears that flag, and leaves the position and
\* step_remainder as they are; negating the component once more gives the
\* direction before the reflection.
C25_ReflectionFrame ==
    [][ (pc = "transmitOrReflect" /\ pc' = "dropReflected") =>
          \E k \in 1..3 :
             /\ <<hit_x_bound, hit_y_bound, hit_z_bound>>[k]
             /\ \A j \in 1..(k - 1) : ~<<hit_x_bound, hit_y_bound, hit_z_bound>>[j]
             /\ direction' = [direction EXCEPT ![k] = 0 - @]
             /\ [direction' EXCEPT ![k] = 0 - @] = direction
             /\ ~<<hit_x_bound', hit_y_bound', hit_z_bound'>>[k]
             /\ location' = location
             /\ step_remainder' = step_remainder ]_vars

\* a photon reflected at the far z boundary with part of its step left
C25_Witness ==
    /\ op = "transmitOrReflect" /\ pc = "dropReflected"
    /\ location[3] = z_bound /\ direction[3] < 0
    /\ step_remainder > 0
    /\ ~hit_z_bound

\* C26: a step that hitMediumBoundary leaves at exactly 0, the photon lying
\* on the boundary, is a no-op: no hop to the boundary and no
\* reflect/transmit decision follow it, and the next operation is the draw
\* of a new step.
C26_ZeroStepIsNoOp ==
    [][ (pc = "hitMediumBoundary" /\ op' = "hitMediumBoundary" /\ step' = 0) =>
          /\ pc' \notin {"hopToBoundary", "transmitOrReflect"}
          /\ pc' = "while" ]_vars

\* C27: whenever transmitOrReflect looks the medium reflectance up, exactly
\* one of hit_x_bound, hit_y_bound and hit_z_bound is set: the assertion of
\* getMediumReflectance holds and the branch "no medium boundary hit" is
\* not taken.
C27_OneFlagAtLookup ==
    pc = "transmitOrReflect" =>
        Cardinality({k \in 1..3 : <<hit_x_bound, hit_y_bound, hit_z_bound>>[k]}) = 1

\* the reflectance is about to be looked up for a photon moved onto an
\* edge or a corner of the box, the y axis being the one flagged
C27_Witness ==
    /\ pc = "transmitOrReflect" /\ op = "hop"
    /\ Cardinality({k \in 1..3 : location[k] \in {0, <<x_bound, y_bound, z_bound>>[k]}}) >= 2
    /\ hit_y_bound

\* C30: when hitMediumBoundary returns false it leaves the three flags
\* false and step and step_remainder as they were, so that no flag is
\* carried into a later step.
C30_NoFlagWithoutHit ==
    [][ (pc = "hitMediumBoundary" /\ pc' = "hop") =>
          /\ ~hit_x_bound' /\ ~hit_y_bound' /\ ~hit_z_bound'
          /\ step' = step
          /\ step_remainder' = step_remainder ]_vars

\* C29: after every hop that leaves the photon alive, the current layer
\* is a layer of the Medium whose depth range contains the photon's depth.
C29_CurrLayerContainsDepth ==
    (op = "hop" /\ status = ALIVE) =>
        /\ currLayer \in 1..Len(p_layers)
        /\ p_layers[currLayer].depth_start <= location[3]
        /\ location[3] <= p_layers[currLayer].depth_end

(***************************************************************************)
(* Claims about the driver (SpecDriver).                                   *)
(***************************************************************************)

\* C7: the driver changes the pressure and displacement frames of the
\* Medium only while no walker thread exists that has not been joined, and
\* a walker thread of time index dt is started only when both frames of dt
\* are loaded.
C7_FramesChangeOnlyBetweenWalkers ==
    [][ /\ (pressureFrame' # pressureFrame \/ displacementFrame' # displacementFrame)
             => \A t \in 1..NumThreads : threads[t] \in {"notAThread", "joined"}
        /\ \A t \in 1..NumThreads :
             (threads'[t] = "running" /\ threads[t] # "running")
                => (pressureFrame = dt /\ displacementFrame = dt) ]_vars

\* the frames of a later time index are loaded and a walker runs on them
C7_Witness ==
    /\ dt > 1 /\ pressureFrame = dt /\ displacementFrame = dt
    /\ \E t \in 1..NumThreads : threads[t] = "running" /\ iterationsDone[t] > 0

C14_LayerBelowAndAbove ==
    LET n == Len(m_layers)
        contiguous ==
            /\ n >= 1
            /\ m_layers[1].depth_start = 0
            /\ m_layers[n].depth_end = z_bound
            /\ \A i \in 1..(n - 1) :
                 m_layers[i].depth_end = m_layers[i + 1].depth_start
        containing(zz) ==
            {i \in 1..n : m_layers[i].depth_start <= zz /\ zz <= m_layers[i].depth_end}
    IN  (mphase = "run" /\ contiguous) =>
          /\ (call.fn = "getLayerBelowCurrent" /\ call.arg \in 0..z_bound) =>
                \E c \in containing(call.arg) :
                  call.ret = IF c = n THEN NULL ELSE c + 1
          /\ (call.fn = "getLayerAboveCurrent" /\ call.arg # NULL) =>
                call.ret = IF call.arg = 1 THEN NULL ELSE call.arg - 1

\* C15: in a medium of contiguous layers, getLayerFromDepth(z) with z in
\* [0, Z] returns a layer that contains z, the shallower one where two
\* layers share z; in any medium, when no layer contains z the call aborts.
C15_LayerFromDepth ==
    LET n == Len(m_layers)
        contiguous ==
            /\ n >= 1
            /\ m_layers[1].depth_start = 0
            /\ m_layers[n].depth_end = z_bound
            /\ \A i \in 1..(n - 1) :
                 m_layers[i].depth_end = m_layers[i + 1].depth_start
        containing(zz) ==
            {i \in 1..n : m_layers[i].depth_start <= zz /\ zz <= m_layers[i].depth_end}
    IN  (mphase = "run" /\ call.fn = "getLayerFromDepth") =>
          /\ (contiguous /\ call.arg \in 0..z_bound) =>
                /\ call.ret \in containing(call.arg)
                /\ \A j \in containing(call.arg) : call.ret <= j
          /\ containing(call.arg) = {} => call.ret = Aborted

\* C16: whenever the walkers run, the layers of the Medium are in
\* increasing depth order and partition [0, Z] without gap or overlap.
C16_LayersPartitionDepth ==
    LET n == Len(m_layers)
    IN  (mphase = "run" /\ n >= 1) =>
          /\ m_layers[1].depth_start = 0
          /\ m_layers[n].depth_end = z_bound
          /\ \A i \in 1..(n - 1) :
               m_layers[i].depth_end = m_layers[i + 1].depth_start

\* C17: photonHitDetectorPlane(p0) returns the number of detectors of the
\* Medium that report a hit at p0.
C17_CountsDetectorsHit ==
    (mphase = "run" /\ call.fn = "photonHitDetectorPlane") =>
        call.ret = Cardinality({i \in 1..Len(m_detectors) :
                                  photonHitDetectorOf(m_detectors[i], call.arg)})

(***************************************************************************)
(* Claims about the planar array (SpecPlanar).                             *)
(***************************************************************************)

\* C18: absorbEnergy(z, energy) adds the energy to the bin
\* floor(|z| / radial_bin_size), to the last bin when |z| >= radial_size,
\* and changes no other bin.
C18_BinOfDepth ==
    [][ \A t \in 1..NumThreads :
          (apc[t] = "write" /\ apc'[t] = "return" /\ ajob[t].form = "bin") =>
             LET r == IF ajob[t].z < 0 THEN 0 - ajob[t].z ELSE ajob[t].z
                 bin == IF r >= radial_size THEN MAX_BINS - 1
                        ELSE r \div radial_bin_size
             IN  Cplanar' = [Cplanar EXCEPT ![bin] = @ + ajob[t].energy] ]_vars

\* C19: no two threads are inside an update of Cplanar at the same time,
\* and whenever no thread is inside one every bin holds its initial zero
\* plus the sum of what the calls that have returned added to it.
C19_UpdatesNotLost ==
    LET inside == {t \in 1..NumThreads : apc[t] \in {"read", "write", "return"}}
    IN  /\ Cardinality(inside) <= 1
        /\ (inside = {} /\ Cplanar # <<>>) => Cplanar = contributed

\* a thread waits for the mutex while another, inside the array form, is
\* between its read and its write of a bin after the first
C19_Witness ==
    \E t \in 1..NumThreads, u \in 1..NumThreads :
        /\ apc[t] = "lock" /\ apc[u] = "write"
        /\ m_sensor_mutex = u
        /\ ajob[u].form = "array" /\ ai[u] > 0

====
